---- MODULE Spec2Model ----
(***************************************************************************)
(* Model of the secondary-agent delegation engine (consult_secondary_agent):*)
(* the path helper validatePath, the Code Artifact Extractor ("Auto-Save   *)
(* Logic"), the tool-call parser, the loop driver runAgentLoop and the      *)
(* consult_secondary_agent handler around it.                               *)
(*                                                                         *)
(* Texts are modelled as sequences of tokens (prose, filename annotation,  *)
(* fenced code block, system marker), each with a character length, so     *)
(* that the regular expressions of the source are computed on what they    *)
(* match: the 500-character lookback window, the first marker in it, the   *)
(* first filename after that marker, the extension alternation.            *)
(***************************************************************************)
EXTENDS Integers, Sequences, FiniteSets, TLC

\* An absent (undefined) JavaScript value, and a truthy value that is no string.
None == "<undefined>"
NonString == "<number>"

Truthy(v) == v # None /\ v # ""
IsString(v) == v # None /\ v # NonString
\* JavaScript a || b || c
Or3(a, b, c) == IF Truthy(a) THEN a ELSE IF Truthy(b) THEN b ELSE c
Or2(a, b) == IF Truthy(a) THEN a ELSE b

Max(a, b) == IF a >= b THEN a ELSE b

(***************************************************************************)
(* Paths.  A path string is modelled by its segments; the working          *)
(* directory is /ws.                                                       *)
(***************************************************************************)
WorkDir == <<"ws">>

\* The segments of the relative file names that occur in the model.
Segs(name) ==
    CASE name = "a.py" -> <<"a.py">>
      [] name = "b.py" -> <<"b.py">>
      [] name = "b.cpp" -> <<"b.cpp">>
      [] name = "b.c" -> <<"b.c">>
      [] name = "../x.py" -> <<"..", "x.py">>
      [] name = "../ws2/y.py" -> <<"..", "ws2", "y.py">>
      [] name = "../WS/z.py" -> <<"..", "WS", "z.py">>
      [] name = "beledarian_info.md" -> <<"beledarian_info.md">>
      [] name = "../ws2" -> <<"..", "ws2">>
      [] name = "sub" -> <<"sub">>
      [] name = ".." -> <<"..">>
      [] OTHER -> <<name>>

\* path.resolve / path.join normalisation of "." and ".." segments.
RECURSIVE Norm(_, _)
Norm(acc, rest) ==
    IF rest = <<>> THEN acc
    ELSE LET s == Head(rest) IN
         IF s = "." THEN Norm(acc, Tail(rest))
         ELSE IF s = ".."
              THEN Norm(IF acc = <<>> THEN acc ELSE SubSeq(acc, 1, Len(acc) - 1), Tail(rest))
              ELSE Norm(Append(acc, s), Tail(rest))

\* resolve(baseDir, requestedPath) and join(baseDir, requestedPath) for a relative path.
Resolve(base, name) == Norm(base, Segs(name))
Join(base, name) == Norm(base, Segs(name))

\* String.toLowerCase on a segment.
Lower(seg) == IF seg = "WS" THEN "ws" ELSE seg
\* String.startsWith between segments: a is a character prefix of b.
SegStartsWith(b, a) == b = a \/ (a = "ws" /\ b = "ws2")

\* lowerResolved.startsWith(lowerBase) on the path strings "/s1/s2/...".
StrStartsWith(resolved, base) ==
    /\ Len(resolved) >= Len(base)
    /\ \A i \in 1..(Len(base) - 1) : Lower(resolved[i]) = Lower(base[i])
    /\ Len(base) > 0 => SegStartsWith(Lower(resolved[Len(base)]), Lower(base[Len(base)]))

\* The containment invariant of the data model: the path is the directory or below it.
Inside(base, p) == Len(p) >= Len(base) /\ SubSeq(p, 1, Len(base)) = base

\* validatePath: [ok, path]; ok = FALSE is the thrown 'Access Denied'.
validatePath(baseDir, requestedPath) ==
    LET resolved == Resolve(baseDir, requestedPath) IN
    [ok |-> StrStartsWith(resolved, Norm(<<>>, baseDir)), path |-> resolved]

(***************************************************************************)
(* Disk: a function from resolved paths to file contents.                  *)
(***************************************************************************)
EmptyDisk == [p \in {} |-> ""]
WriteFile(d, p, c) == [q \in (DOMAIN d) \cup {p} |-> IF q = p THEN c ELSE d[q]]
\* dirname(p)
Dirname(p) == IF p = <<>> THEN p ELSE SubSeq(p, 1, Len(p) - 1)

(***************************************************************************)
(* Text tokens.                                                            *)
(***************************************************************************)
Prose(n) == [kind |-> "prose", len |-> n]
\* "### <name>\n": a marker directly followed by a file name.
Ann(name) == [kind |-> "ann", name |-> name]
\* "```<lang>\n<body>```"
Block(lang, body) == [kind |-> "block", lang |-> lang, body |-> body]
\* "\n[System: File '<name>' created successfully.]\n"
SysFile(name) == [kind |-> "sysfile", name |-> name]
\* "\n[System: Successfully extracted and saved <n> files from JSON block.]\n"
SysBatch(n) == [kind |-> "sysbatch", n |-> n]

\* JSON.parse of a block body.
NoJson == [t |-> "invalid"]
JsonArray(items) == [t |-> "array", items |-> items]
\* An entry object of a JSON batch.
Entry(p, fn, n, c, d, cd) ==
    [path |-> p, file_name |-> fn, name |-> n, content |-> c, data |-> d, code |-> cd]
PathContent(p, c) == Entry(p, None, None, c, None, None)

\* A block body: its text (id), its trimmed length, the file name of a
\* first-line comment ("// a.py") if any, and what JSON.parse makes of it.
Body(id, len, comment, json) == [id |-> id, len |-> len, comment |-> comment, json |-> json]

ItemLen(it) ==
    CASE it.kind = "prose" -> it.len
      [] it.kind = "ann" -> 12
      [] it.kind = "block" -> 12 + it.body.len
      [] it.kind = "sysfile" -> 45
      [] it.kind = "sysbatch" -> 70
      [] OTHER -> 0

\* match.index of the token at position i: the characters before it.
RECURSIVE IndexOf(_, _)
IndexOf(text, i) == IF i <= 1 THEN 0 ELSE IndexOf(text, i - 1) + ItemLen(text[i - 1])

LookbackChars == 500
MinCodeLen == 50

\* The extension alternation (tsx|ts|jsx|js|html|css|json|...|c|cpp|h|hpp|txt) is
\* not anchored: the first alternative that matches a prefix of the extension wins.
RegexName(name) ==
    CASE name = "b.cpp" -> "b.c"
      [] OTHER -> name

ShellLangs == {"bash", "sh", "cmd", "powershell", "console", "zsh", "terminal"}

\* const fName = item.path || item.file_name || item.name; fContent likewise.
EntryName(e) == Or3(e.path, e.file_name, e.name)
EntryContent(e) == Or3(e.content, e.data, e.code)
\* fName && typeof fName === "string" && fContent && typeof fContent === "string"
EntryValid(e) ==
    /\ Truthy(EntryName(e)) /\ IsString(EntryName(e))
    /\ Truthy(EntryContent(e)) /\ IsString(EntryContent(e))

\* The first file name written in a JSON body ("path": "a.py"), if any.
JsonMention(json) ==
    IF json.t # "array" THEN None
    ELSE LET ks == {k \in 1..Len(json.items) :
                      Truthy(EntryName(json.items[k])) /\ IsString(EntryName(json.items[k]))}
         IN IF ks = {} THEN None
            ELSE EntryName(json.items[CHOOSE k \in ks : \A j \in ks : k <= j])

\* The file name the lookback regex can capture inside one token, if any.
Mention(it) ==
    CASE it.kind = "ann" -> RegexName(it.name)
      [] it.kind = "sysfile" -> RegexName(it.name)
      [] it.kind = "block" ->
            IF it.body.comment # None THEN RegexName(it.body.comment)
            ELSE IF JsonMention(it.body.json) # None THEN RegexName(JsonMention(it.body.json))
            ELSE None
      [] OTHER -> None

\* A token that holds one of the markers ` ** ### filename: file:
HasMarker(it) == it.kind \in {"ann", "block"}

\* The tokens of finalContent.substring(max(0, index - 500), index): the
\* positions before i that start inside the window (only prose is ever cut).
Window(text, i) ==
    {j \in 1..(i - 1) : IndexOf(text, j) >= Max(0, IndexOf(text, i) - LookbackChars)}

\* lookback.match(/(?:`|\*\*|###|filename:|file:)[\s\S]*?(name.ext)/i): the
\* leftmost marker of the window, then the first file name at or after it.
LookbackName(text, i) ==
    LET w == Window(text, i)
        ms == {j \in w : HasMarker(text[j])}
    IN IF ms = {} THEN ""
       ELSE LET m == CHOOSE j \in ms : \A k \in ms : j <= k
                ns == {j \in w : j >= m /\ Mention(text[j]) # None}
            IN IF ns = {} THEN ""
               ELSE Mention(text[CHOOSE j \in ns : \A k \in ns : j <= k])

\* firstLine.match(/^(?:\/\/|#|<!--|;)\s*(?:filename:|file:)?\s*(name.ext)/i)
CommentName(body) == IF body.comment # None THEN RegexName(body.comment) ELSE ""

ReplaceAt(text, i, it) == [text EXCEPT ![i] = it]

(***************************************************************************)
(* Code Artifact Extractor (the Auto-Save Logic of runAgentLoop).          *)
(* An extraction state: the text (finalContent), the disk, filesModified,  *)
(* processedFiles, and the log of writeFile calls made.                    *)
(***************************************************************************)
XState(text, disk, fm) ==
    [text |-> text, disk |-> disk, fm |-> fm, processed |-> {}, writes |-> <<>>]

\* mkdir + writeFile + filesModified.push + processedFiles.add
SaveAs(st, name, fpath, content, i, via) ==
    [st EXCEPT !.disk = WriteFile(@, fpath, content),
               !.fm = Append(@, name),
               !.processed = @ \cup {name},
               !.writes = Append(@, [name |-> name, path |-> fpath, content |-> content,
                                     block |-> i, via |-> via])]

\* Faulty variant: the loop over the entries stops after the first entry it saves.
BatchLoop_FirstOnly(items, k, st, count, i) ==
    IF k > Len(items) \/ count >= 1 THEN [st |-> st, count |-> count, threw |-> FALSE]
    ELSE LET e == items[k] IN
         IF ~EntryValid(e) THEN [st |-> st, count |-> count, threw |-> FALSE]
         ELSE LET v == validatePath(WorkDir, EntryName(e)) IN
              IF ~v.ok THEN [st |-> st, count |-> count, threw |-> TRUE]
              ELSE [st |-> SaveAs(st, EntryName(e), v.path, EntryContent(e), i, "batch"),
                    count |-> count + 1, threw |-> FALSE]

\* for (const item of parsed) {...}: a thrown validatePath leaves the loop.
RECURSIVE BatchLoop(_, _, _, _, _)
BatchLoop(items, k, st, count, i) ==
    IF k > Len(items) THEN [st |-> st, count |-> count, threw |-> FALSE]
    ELSE LET e == items[k] IN
         IF ~EntryValid(e) THEN BatchLoop(items, k + 1, st, count, i)
         ELSE LET v == validatePath(WorkDir, EntryName(e)) IN
              IF ~v.ok THEN [st |-> st, count |-> count, threw |-> TRUE]
              ELSE BatchLoop(items, k + 1,
                             SaveAs(st, EntryName(e), v.path, EntryContent(e), i, "batch"),
                             count + 1, i)

\* Smart JSON Unpacking of the block at position i: [st, handledAsBatch].
Unpack(st, i) ==
    LET it == st.text[i] IN
    IF it.lang = "json" /\ it.body.json.t = "array"
    THEN LET r == BatchLoop(it.body.json.items, 1, st, 0, i) IN
         IF ~r.threw /\ r.count > 0
         THEN [st |-> [r.st EXCEPT !.text = ReplaceAt(@, i, SysBatch(r.count))], handled |-> TRUE]
         ELSE [st |-> r.st, handled |-> FALSE]
    ELSE [st |-> st, handled |-> FALSE]

\* The file name inferred for the block at position i: lookback, then first line.
InferName(text, i) ==
    IF LookbackName(text, i) # "" THEN LookbackName(text, i)
    ELSE CommentName(text[i].body)

\* The single-file path for the block at position i.
SaveSingle(st, i) ==
    LET it == st.text[i]
        fileName == InferName(st.text, i)
    IN IF it.body.len <= MinCodeLen THEN st
       ELSE IF it.lang \in ShellLangs /\ fileName = "" THEN st
       ELSE IF fileName = "" THEN st
       ELSE IF fileName \in st.processed THEN st
       ELSE [SaveAs(st, fileName, Join(WorkDir, fileName), it.body.id, i, "single")
                EXCEPT !.text = ReplaceAt(@, i, SysFile(fileName))]

\* One iteration of the reverse walk.
ProcessBlock(st, i) ==
    LET u == Unpack(st, i) IN
    IF u.handled THEN u.st ELSE SaveSingle(u.st, i)

\* for (let i = matches.length - 1; i >= 0; i--)
RECURSIVE Walk(_, _)
Walk(st, i) ==
    IF i < 1 THEN st
    ELSE IF st.text[i].kind = "block" THEN Walk(ProcessBlock(st, i), i - 1)
    ELSE Walk(st, i - 1)

\* if (autoSave && allowFileSystem && finalContent) {...}
extract(text, disk, fm) == Walk(XState(text, disk, fm), Len(text))

(***************************************************************************)
(* Response Grammar Parser (the tool-use check of runAgentLoop).           *)
(* An assistant text is a sequence of parts: prose without braces, prose   *)
(* holding a '{' or a '}', a well-formed JSON object, a malformed one; it  *)
(* may hold a "to=<name>" token, a refusal phrase and TASK_COMPLETED.      *)
(***************************************************************************)
NoObj == [absent |-> TRUE]
NoFiles == [isArray |-> FALSE, items |-> <<>>]
\* An arguments object.
Args(p, d, fn, c) ==
    [path |-> p, data |-> d, file_name |-> fn, content |-> c, name |-> None, files |-> NoFiles,
     old_string |-> None, new_string |-> None, pattern |-> None, query |-> None,
     url |-> None, python |-> None, javascript |-> None]
NoArgs == Args(None, None, None, None)
\* A parsed JSON object: its tool/args and name/arguments members and, for a
\* bare arguments object, its own members.
Obj(tool, args, name, arguments, own) ==
    [tool |-> tool, args |-> args, name |-> name, arguments |-> arguments, own |-> own]

PText == [k |-> "text"]
POpen == [k |-> "open"]
PClose == [k |-> "close"]
PBad == [k |-> "badobj"]
PObj(o) == [k |-> "obj", v |-> o]

\* An assistant text: its parts as the parser sees them, its "to=" token, whether
\* it holds a refusal phrase, TASK_COMPLETED, end-of-turn marker tokens <|...|>,
\* and its tokens as the extractor sees them.
Reply(parts, to, refusal, completed, eot, text) ==
    [parts |-> parts, to |-> to, refusal |-> refusal, completed |-> completed,
     eot |-> eot, text |-> text]
\* The empty string.
EmptyText == Reply(<<>>, None, FALSE, FALSE, FALSE, <<>>)
\* content.replace(/<\|.*?\|>/g, "").trim()
Cleanup(r) == [r EXCEPT !.eot = FALSE]

\* trimmed.match(/\{[\s\S]*\}/): from the first '{' to the last '}'.
JsonMatch(parts) ==
    LET opens == {i \in 1..Len(parts) : parts[i].k \in {"obj", "badobj", "open"}}
        closes == {i \in 1..Len(parts) : parts[i].k \in {"obj", "badobj", "close"}}
    IN IF opens = {} \/ closes = {} THEN <<>>
       ELSE LET a == CHOOSE i \in opens : \A j \in opens : i <= j
                b == CHOOSE i \in closes : \A j \in closes : i >= j
            IN IF a > b THEN <<>> ELSE SubSeq(parts, a, b)

\* JSON.parse(jsonMatch[0]): an object only when the span is one well-formed object.
JsonParse(span) == IF Len(span) = 1 /\ span[1].k = "obj" THEN span[1].v ELSE NoObj

\* toolName.startsWith("functions.") ? toolName.replace("functions.", "") : toolName
StripFunctions(to) ==
    CASE to = "functions.save_file" -> "save_file"
      [] to = "functions.read_file" -> "read_file"
      [] OTHER -> to

\* if (args.path && !args.file_name) args.file_name = args.path;
\* if (args.data && !args.content) args.content = args.data;
MapSaveArgs(args) ==
    [args EXCEPT !.file_name = IF Truthy(args.path) /\ ~Truthy(@) THEN args.path ELSE @,
                 !.content = IF Truthy(args.data) /\ ~Truthy(@) THEN args.data ELSE @]

NoCall == [tool |-> None, args |-> NoObj]

\* The tool call parsed from an assistant text, or NoCall (toolCall = null).
ParseToolCall(r) ==
    LET span == JsonMatch(r.parts)
        parsed == JsonParse(span)
    IN IF span = <<>> \/ parsed = NoObj THEN NoCall
       ELSE IF Truthy(parsed.tool) /\ parsed.args # NoObj
            THEN [tool |-> parsed.tool, args |-> parsed.args]
       ELSE IF Truthy(parsed.name) /\ parsed.arguments # NoObj
            THEN [tool |-> parsed.name,
                  args |-> IF parsed.name = "save_file" THEN MapSaveArgs(parsed.arguments)
                           ELSE parsed.arguments]
       ELSE IF r.to # None
            THEN [tool |-> StripFunctions(r.to),
                  args |-> IF StripFunctions(r.to) = "save_file" THEN MapSaveArgs(parsed.own)
                           ELSE parsed.own]
       ELSE NoCall


(***************************************************************************)
(* Tool dispatch inside runAgentLoop.                                      *)
(***************************************************************************)
FileObj(fn, c) == [file_name |-> fn, name |-> None, path |-> None, content |-> c, data |-> None]
FilesArg(items) ==
    [NoArgs EXCEPT !.files = [isArray |-> TRUE, items |-> items]]

ErrNotFound == "Error: Tool not found/allowed."
ErrMissingArgs == "Error: Missing 'file_name' (or 'name', 'path') or 'content' (or 'data') arguments."
ErrNoValidFiles == "Error: No valid files found in batch."
ErrAccessDenied == "Error: Access Denied"
ErrNoEntry == "Error: ENOENT"
OkSaved == "Success: File saved"
OkSavedBatch == "Success: Saved files"
ErrOldString == "Error: 'old_string' not found exactly."
ErrOccurrences == "Error: Found several occurrences. Be more specific."
OkReplaced == "Success: Text replaced."
ErrRegex == "Error: Invalid regular expression"
OkDeleted == "Deleted files"
ErrThrown == "Error: request failed"
\* content.split(old_string).length - 1 for the contents and strings of the model
Occurs(content, old) == IF content = old THEN 1 ELSE IF content = "XX" /\ old = "X" THEN 2 ELSE 0
\* new RegExp(pattern) and regex.test(file) for the patterns of the model
ValidRegex(pattern) == pattern # "("
RegexTest(pattern, file) == pattern = "py" /\ file \in {"a.py", "b.py"}

ToolOut(result, d, fm) == [toolResult |-> result, disk |-> d, fm |-> fm]

\* for (const fileObj of toolCall.args.files) {...}: a failing entry is skipped.
RECURSIVE SaveFiles(_, _, _, _, _)
SaveFiles(files, k, d, fm, saved) ==
    IF k > Len(files) THEN [disk |-> d, fm |-> fm, saved |-> saved]
    ELSE LET fName == Or3(files[k].file_name, files[k].name, files[k].path)
             fContent == Or2(files[k].content, files[k].data)
             v == validatePath(WorkDir, fName)
         IN IF Truthy(fName) /\ Truthy(fContent) /\ v.ok
            THEN SaveFiles(files, k + 1, WriteFile(d, v.path, fContent), Append(fm, fName), saved + 1)
            ELSE SaveFiles(files, k + 1, d, fm, saved)

\* The File System section: toolResult "" when no branch produced a result.
DispatchFileSystem(call, d, fm) ==
    IF call.tool = "read_file" /\ Truthy(call.args.file_name)
    THEN LET v == validatePath(WorkDir, call.args.file_name) IN
         IF ~v.ok THEN ToolOut(ErrAccessDenied, d, fm)
         ELSE IF v.path \notin DOMAIN d THEN ToolOut(ErrNoEntry, d, fm)
         ELSE ToolOut(d[v.path], d, fm)
    ELSE IF call.tool = "list_directory" THEN ToolOut("[files]", d, fm)
    ELSE IF call.tool = "save_file"
    THEN IF call.args.files.isArray
         THEN LET r == SaveFiles(call.args.files.items, 1, d, fm, 0) IN
              ToolOut(IF r.saved > 0 THEN OkSavedBatch ELSE ErrNoValidFiles, r.disk, r.fm)
         ELSE LET fileName == Or3(call.args.file_name, call.args.name, call.args.path)
                  content == Or2(call.args.content, call.args.data)
              IN IF Truthy(fileName) /\ Truthy(content)
                 THEN LET v == validatePath(WorkDir, fileName) IN
                      IF ~v.ok THEN ToolOut(ErrAccessDenied, d, fm)
                      ELSE ToolOut(OkSaved, WriteFile(d, v.path, content), Append(fm, fileName))
                 ELSE ToolOut(ErrMissingArgs, d, fm)
    ELSE IF /\ call.tool = "replace_text_in_file" /\ Truthy(call.args.file_name)
            /\ Truthy(call.args.old_string) /\ Truthy(call.args.new_string)
    THEN LET v == validatePath(WorkDir, call.args.file_name) IN
         IF ~v.ok THEN ToolOut(ErrAccessDenied, d, fm)
         ELSE IF v.path \notin DOMAIN d THEN ToolOut(ErrNoEntry, d, fm)
         ELSE IF Occurs(d[v.path], call.args.old_string) = 0 THEN ToolOut(ErrOldString, d, fm)
         ELSE IF Occurs(d[v.path], call.args.old_string) > 1 THEN ToolOut(ErrOccurrences, d, fm)
         ELSE ToolOut(OkReplaced, WriteFile(d, v.path, call.args.new_string),
                      Append(fm, call.args.file_name))
    ELSE IF call.tool = "delete_files_by_pattern" /\ Truthy(call.args.pattern)
    THEN IF ~ValidRegex(call.args.pattern) THEN ToolOut(ErrRegex, d, fm)
         ELSE ToolOut(OkDeleted,
                      [q \in { q \in DOMAIN d : ~(Dirname(q) = WorkDir /\
                                                   RegexTest(call.args.pattern, q[Len(q)])) }
                         |-> d[q]], fm)
    ELSE IF call.tool = "rag_local_files" THEN ToolOut("Local RAG available (mocked for refactor).", d, fm)
    ELSE ToolOut("", d, fm)

\* The Web tools: wikipedia (mock), duckduckgo_search, fetch_web_content; ext is
\* what the network does.
DispatchWeb(call, ext) ==
    IF call.tool = "wikipedia_search" THEN "Wiki Search (mocked)"
    ELSE IF call.tool = "duckduckgo_search"
    THEN (IF ext = "throws" THEN ErrThrown ELSE "[results]")
    ELSE IF call.tool = "fetch_web_content" /\ Truthy(call.args.url)
    THEN (IF ext = "throws" THEN ErrThrown ELSE IF ext = "empty" THEN "" ELSE "page text")
    ELSE ""

\* run_python: ext is what the script does (output, no output, stderr or a throw).
DispatchCode(call, ext) ==
    IF call.tool = "run_python"
    THEN (IF ext = "throws" THEN ErrThrown ELSE IF ext = "empty" THEN "" ELSE "stdout")
    ELSE ""

\* Faulty variant: the File System tools run whatever the settings say.
Dispatch_IgnoresSettings(call, d, fm, c, ext) ==
    LET fs == DispatchFileSystem(call, d, fm)
    IN IF fs.toolResult = "" THEN [fs EXCEPT !.toolResult = ErrNotFound] ELSE fs

\* The tool result of one call: File System, then Web, then Code, then the default.
Dispatch(call, d, fm, c, ext) ==
    LET fs == IF c.allowFileSystem THEN DispatchFileSystem(call, d, fm) ELSE ToolOut("", d, fm)
        web == IF c.allowWeb /\ fs.toolResult = ""
               THEN [fs EXCEPT !.toolResult = DispatchWeb(call, ext)] ELSE fs
        code == IF c.allowCode /\ web.toolResult = ""
                THEN [web EXCEPT !.toolResult = DispatchCode(call, ext)] ELSE web
    IN IF code.toolResult = "" THEN [code EXCEPT !.toolResult = ErrNotFound] ELSE code


(***************************************************************************)
(* State.                                                                  *)
(***************************************************************************)
VARIABLES
    xpc,      \* extractor runs: "start", "once" (extract ran), "twice" (ran on its own output)
    xin,      \* the final text given to the first run
    xr1,      \* the extraction state after the first run
    xr2       \* the extraction state after the second run, on xr1.text and xr1.disk

xvars == <<xpc, xin, xr1, xr2>>

VARIABLES
    ppc,      \* parser runs: "start", "parsed"
    pin,      \* the assistant text given to the parser
    pout      \* the tool call it produced

pvars == <<ppc, pin, pout>>

VARIABLES
    cfg,            \* plugin settings and the call's allow_tools
    phase,          \* consult_secondary_agent: "primary", "reviewer", "finished"; "standalone"
    pc,             \* runAgentLoop: "loop" (while test), "post" (after the loop), "ret" (returned)
    loopLimit,      \* runAgentLoop's loopLimit
    forceTools,     \* runAgentLoop's forceTools
    loops,          \* turn counter
    requests,       \* chat-completion requests sent by this run
    content,        \* the cleaned reply of the latest turn
    finalContent,   \* the final text
    filesModified,  \* files recorded by this run
    msgCount,       \* msgList.length
    msgTail,        \* the messages the latest turn pushed onto msgList
    disk,           \* the workspace files
    infoLog,        \* beledarian_info.md: [exists, lines]
    res,            \* the value runAgentLoop returned
    primaryResult,  \* consult_secondary_agent's primaryResult
    debugResult,    \* consult_secondary_agent's debugResult
    out             \* the value consult_secondary_agent returned

lvars == <<cfg, phase, pc, loopLimit, forceTools, loops, requests, content, finalContent,
           filesModified, msgCount, msgTail, disk, infoLog, res, primaryResult, debugResult, out>>

VARIABLES
    tpc,      \* file-system tools of the tools provider: "ready"
    tdisk,    \* files of the machine: resolved path -> content
    tdirs,    \* directories of the machine
    ttouched, \* the paths the latest tool call handed to the file system
    tok,      \* the latest tool call returned (TRUE) or threw / returned an error (FALSE)
    tcalls,   \* tool calls made
    tlast     \* the latest tool call: its tool and the path argument it was given

tvars == <<tpc, tdisk, tdirs, ttouched, tok, tcalls, tlast>>

VARIABLES
    stored,     \* .plugin_state.json
    inst,       \* tools-provider instances: loaded, fullState, currentWorkingDirectory, pc
    pre,        \* the prompt preprocessor: pc and the state object it holds
    lastChange, \* the directory set by the latest change_directory that returned
    sops        \* operations started

svars == <<stored, inst, pre, lastChange, sops>>

ovars == <<tvars, svars>>

vars == <<xvars, pvars, lvars, ovars>>

(***************************************************************************)
(* The texts the extractor is run on.                                      *)
(***************************************************************************)
MaxUnits == 3

PyBlock1 == Block("python", Body("B1", 80, None, NoJson))
PyBlock2 == Block("python", Body("B2", 80, None, NoJson))
SmallBlock == Block("python", Body("B3", 20, None, NoJson))
CommentBlock == Block("typescript", Body("B4", 80, "a.py", NoJson))
ShellBlock == Block("bash", Body("B5", 80, None, NoJson))
JsonBlock(id, items) == Block("json", Body(id, 80, None, JsonArray(items)))
Batch2 == JsonBlock("J2", <<PathContent("a.py", "X"), PathContent("b.py", "Y")>>)
BatchEmptyContent == JsonBlock("J3", <<PathContent("a.py", "X"), PathContent("b.py", "")>>)
BatchEscape == JsonBlock("J4", <<PathContent("a.py", "X"), PathContent("../x.py", "Y"),
                                 PathContent("b.py", "Y")>>)
BatchDup == JsonBlock("J6", <<PathContent("a.py", "X"), PathContent("a.py", "Y")>>)
BatchNonString == JsonBlock("J7", <<Entry(NonString, "b.py", None, "Y", None, None)>>)

\* A unit of text: prose, a stray file mention, a code block, or a code block
\* with its filename annotation on the line before it.
UnitPool ==
    { <<Prose(10)>>, <<Prose(600)>>, <<Ann("a.py")>>,
      <<PyBlock1>>, <<PyBlock2>>, <<SmallBlock>>, <<CommentBlock>>, <<ShellBlock>>,
      <<Batch2>>, <<BatchEmptyContent>>, <<BatchEscape>>, <<BatchDup>>, <<BatchNonString>>,
      <<Ann("a.py"), PyBlock1>>, <<Ann("b.py"), PyBlock2>>, <<Ann("b.cpp"), PyBlock2>>,
      <<Ann("../x.py"), PyBlock1>>, <<Ann("a.py"), ShellBlock>>, <<Ann("a.py"), Batch2>> }

RECURSIVE Concat(_)
Concat(us) == IF us = <<>> THEN <<>> ELSE Head(us) \o Concat(Tail(us))

Texts == { Concat(us) : us \in UNION { [1..n -> UnitPool] : n \in 1..MaxUnits } }

NoRun == XState(<<>>, EmptyDisk, <<>>)

XIdle == xpc = "idle" /\ xin = <<>> /\ xr1 = NoRun /\ xr2 = NoRun
PIdle == ppc = "idle" /\ pin = EmptyText /\ pout = NoCall

NoResult == [response |-> EmptyText, filesModified |-> <<>>, error |-> None]
NoCfg == [allow_tools |-> FALSE, allowFileSystem |-> FALSE, allowWeb |-> FALSE, allowCode |-> FALSE,
          allowPython |-> FALSE, autoSave |-> FALSE, debugMode |-> FALSE, showFullCode |-> FALSE]
NoOut == [error |-> None, response |-> None, generated_files |-> None]
NoLog == [exists |-> FALSE, lines |-> <<>>]

LIdle ==
    /\ cfg = NoCfg /\ phase = "idle" /\ pc = "idle" /\ loopLimit = 0 /\ forceTools = FALSE
    /\ loops = 0 /\ requests = 0 /\ content = EmptyText /\ finalContent = EmptyText
    /\ filesModified = <<>> /\ msgCount = 0 /\ msgTail = <<>> /\ disk = EmptyDisk
    /\ infoLog = NoLog /\ res = NoResult /\ primaryResult = NoResult
    /\ debugResult = NoResult /\ out = NoOut

\* The file-system tools and the persisted plugin state, not in use.
NoToolCall == [tool |-> None, path |-> None]
TIdle ==
    /\ tpc = "idle" /\ tdisk = EmptyDisk /\ tdirs = {} /\ ttouched = {} /\ tok = TRUE
    /\ tcalls = 0 /\ tlast = NoToolCall
PluginState(cwd, injected) == [currentWorkingDirectory |-> cwd, subAgentDocsInjected |-> injected]
NoChange == [made |-> FALSE, dir |-> <<>>]
SIdle ==
    /\ stored = PluginState(WorkDir, FALSE) /\ inst = <<>>
    /\ pre = [pc |-> "idle", state |-> PluginState(WorkDir, FALSE)]
    /\ lastChange = NoChange /\ sops = 0
OIdle == TIdle /\ SIdle

XInit ==
    /\ xpc = "start"
    /\ xin \in Texts
    /\ xr1 = NoRun
    /\ xr2 = NoRun
    /\ PIdle /\ LIdle /\ OIdle

\* extract(finalText, workingDirectory) on an empty workspace.
Extract1 ==
    /\ xpc = "start"
    /\ xpc' = "once"
    /\ xr1' = extract(xin, EmptyDisk, <<>>)
    /\ UNCHANGED <<xin, xr2, pvars, lvars, ovars>>

\* extract again, on the updatedText of the first run, in the same directory.
Extract2 ==
    /\ xpc = "once"
    /\ xpc' = "twice"
    /\ xr2' = extract(xr1.text, xr1.disk, <<>>)
    /\ UNCHANGED <<xin, xr1, pvars, lvars, ovars>>

XNext == Extract1 \/ Extract2

SpecExtract == XInit /\ [][XNext]_vars

(***************************************************************************)
(* Properties of the Code Artifact Extractor (SpecExtract).                *)
(***************************************************************************)
Ran == xpc # "start"
BlockAt(text, i) == i \in 1..Len(text) /\ text[i].kind = "block"
Blocks(text) == {i \in 1..Len(text) : text[i].kind = "block"}
WritesOf(st, i) == {k \in 1..Len(st.writes) : st.writes[k].block = i}
IsBatchBlock(it) == it.kind = "block" /\ it.lang = "json" /\ it.body.json.t = "array"

\* C2: every file the extractor writes, from a single-file block or from a
\* batch entry, has a resolved path inside the working directory.
C2_ExtractWritesInside ==
    Ran => \A k \in 1..Len(xr1.writes) : Inside(WorkDir, xr1.writes[k].path)

\* The blocks of the text are all longer than the minimum size, none is a JSON
\* batch, and each is directly preceded by a filename annotation; the annotated
\* names are pairwise distinct.
WellAnnotated(text) ==
    /\ Blocks(text) # {}
    /\ \A i \in Blocks(text) :
          /\ text[i].body.len > MinCodeLen
          /\ ~IsBatchBlock(text[i])
          /\ i > 1 /\ text[i - 1].kind = "ann"
    /\ \A i, j \in 1..Len(text) :
          (text[i].kind = "ann" /\ text[j].kind = "ann" /\ i # j) => text[i].name # text[j].name

\* C3: in a text whose code blocks are each annotated with their own distinct
\* file name, extract writes every annotated file with exactly the body of its
\* own block, and updatedText holds none of the original fenced blocks.
C3_AnnotatedBlocksSaved ==
    (Ran /\ WellAnnotated(xin)) =>
        /\ \A i \in Blocks(xin) :
              LET p == Join(WorkDir, xin[i - 1].name) IN
              p \in DOMAIN xr1.disk /\ xr1.disk[p] = xin[i].body.id
        /\ Blocks(xr1.text) = {}

\* A shell-tagged block with no filename of its own: no annotation directly
\* before it and no filename comment on its first line.
UnlabeledShell(text, i) ==
    /\ BlockAt(text, i)
    /\ text[i].lang \in ShellLangs
    /\ text[i].body.comment = None
    /\ (i = 1 \/ text[i - 1].kind # "ann")

\* C4: a shell-tagged block without a filename of its own never causes a file
\* write and is left unchanged in updatedText, whatever surrounds it.
C4_UnlabeledShellNeverSaved ==
    Ran => \A i \in 1..Len(xin) :
              UnlabeledShell(xin, i) => (WritesOf(xr1, i) = {} /\ xr1.text[i] = xin[i])

\* The parts of a text that resolve to a path: the valid entries of a JSON batch
\* block, and the blocks above the minimum size for which a file name is inferred.
Occurrences(text) ==
    { [block |-> i, entry |-> k, path |-> Resolve(WorkDir, EntryName(text[i].body.json.items[k])),
       content |-> EntryContent(text[i].body.json.items[k])] :
         <<i, k>> \in { <<i, k>> \in (1..Len(text)) \X (1..3) :
                          /\ IsBatchBlock(text[i])
                          /\ k <= Len(text[i].body.json.items)
                          /\ EntryValid(text[i].body.json.items[k]) } }
    \cup
    { [block |-> i, entry |-> 0, path |-> Join(WorkDir, InferName(text, i)),
       content |-> text[i].body.id] :
         i \in { i \in Blocks(text) :
                  /\ ~IsBatchBlock(text[i])
                  /\ text[i].body.len > MinCodeLen
                  /\ InferName(text, i) # "" } }

Later(o1, o2) == o1.block > o2.block \/ (o1.block = o2.block /\ o1.entry > o2.entry)

\* C5: when several parts of one text resolve to the same path, the file holds
\* the content of the part that appears last in the text, and the path is
\* written once in the pass (no earlier occurrence is written).
C5_LastOccurrenceWins ==
    Ran => \A o \in Occurrences(xin) :
              ( /\ \E o2 \in Occurrences(xin) : o2.path = o.path /\ o2 # o
                /\ \A o2 \in Occurrences(xin) : (o2.path = o.path /\ o2 # o) => Later(o, o2) )
              => /\ o.path \in DOMAIN xr1.disk
                 /\ xr1.disk[o.path] = o.content
                 /\ Cardinality({k \in 1..Len(xr1.writes) : xr1.writes[k].path = o.path}) = 1

\* C6: extract is idempotent: run again on its own updatedText in the same
\* directory, it writes nothing, changes no file, reports no modified file and
\* returns the text unchanged.
C6_ExtractIdempotent ==
    xpc = "twice" =>
        /\ xr2.writes = <<>>
        /\ xr2.disk = xr1.disk
        /\ xr2.fm = <<>>
        /\ xr2.text = xr1.text
\* The writes made for the block at position i, in the order made.
BlockWrites(st, i) == SelectSeq(st.writes, LAMBDA w : w.block = i)
FmMirrorsWrites(st) == st.fm = [k \in 1..Len(st.writes) |-> st.writes[k].name]

\* What extract has to do with a batch block at position i whose entries all count.
UnpackedFully(st, i, items) ==
    /\ Len(BlockWrites(st, i)) = Len(items)
    /\ \A k \in 1..Len(items) :
          k <= Len(BlockWrites(st, i)) =>
             /\ BlockWrites(st, i)[k].via = "batch"
             /\ BlockWrites(st, i)[k].name = EntryName(items[k])
             /\ BlockWrites(st, i)[k].path = Resolve(WorkDir, EntryName(items[k]))
             /\ BlockWrites(st, i)[k].content = EntryContent(items[k])
    /\ FmMirrorsWrites(st)
    /\ st.text[i] = SysBatch(Len(items))

\* An entry as the claim words it: a string path|file_name|name and a string
\* content|data|code, the path inside the working directory.
FirstString(a, b, c) == IF IsString(a) THEN a ELSE IF IsString(b) THEN b ELSE c
EntryHasStrings(e) ==
    /\ IsString(FirstString(e.path, e.file_name, e.name))
    /\ IsString(FirstString(e.content, e.data, e.code))
    /\ Inside(WorkDir, Resolve(WorkDir, FirstString(e.path, e.file_name, e.name)))

\* C7 as stated: a json block whose array holds N entries with a string name and
\* a string content, all inside the working directory, is unpacked into N writes
\* and one summary marker.
C7_BatchOfStringEntriesUnpacked ==
    Ran => \A i \in 1..Len(xin) :
              ( /\ IsBatchBlock(xin[i])
                /\ \A k \in 1..Len(xin[i].body.json.items) : EntryHasStrings(xin[i].body.json.items[k]) )
              => UnpackedFully(xr1, i, xin[i].body.json.items)

\* An entry the code accepts: the first truthy of path, file_name, name and the
\* first truthy of content, data, code are non-empty strings; the path is inside.
EntryAccepted(e) == EntryValid(e) /\ Inside(WorkDir, Resolve(WorkDir, EntryName(e)))

\* C7 (amended): a json block whose array holds N >= 1 entries, each with a
\* non-empty string name and a non-empty string content and a path inside the
\* working directory, causes exactly N writes, one per entry in order with that
\* entry's content, records the N names in filesModified, is replaced by exactly
\* one summary marker, and is not also saved as a single file.
C7_BatchUnpacked ==
    Ran => \A i \in 1..Len(xin) :
              ( /\ IsBatchBlock(xin[i])
                /\ Len(xin[i].body.json.items) >= 1
                /\ \A k \in 1..Len(xin[i].body.json.items) : EntryAccepted(xin[i].body.json.items[k]) )
              => UnpackedFully(xr1, i, xin[i].body.json.items)

\* A two-entry batch with a filename annotation before it was unpacked: two
\* batch writes, one marker, no single-file save of the block.
C7_Witness ==
    /\ Ran
    /\ \E i \in 2..Len(xin) :
          /\ IsBatchBlock(xin[i]) /\ xin[i - 1].kind = "ann"
          /\ Len(xin[i].body.json.items) = 2
          /\ \A k \in 1..2 : EntryAccepted(xin[i].body.json.items[k])
          /\ xr1.text[i] = SysBatch(2)
          /\ Len(BlockWrites(xr1, i)) = 2

(***************************************************************************)
(* The parser on its own (SpecParse).                                      *)
(***************************************************************************)
ArgsPool ==
    { Args(p, d, fn, c) : p \in {None, "a.py"}, d \in {None, "X"},
                          fn \in {None, "b.py"}, c \in {None, "Y"} }
ObjPool ==
    { Obj(t, a, None, NoObj, NoArgs) : t \in {"save_file", "read_file"}, a \in ArgsPool }
    \cup { Obj(None, NoObj, n, a, NoArgs) : n \in {"save_file", "read_file"}, a \in ArgsPool }
    \cup { Obj(None, NoObj, None, NoObj, a) : a \in ArgsPool }
PartsPool ==
    UNION { { <<PObj(o)>>, <<PText, PObj(o)>>, <<PObj(o), PClose>>, <<PObj(o), PText>>,
              <<PObj(o), PText, PObj(o)>> } : o \in ObjPool }
    \cup { <<PText>>, <<PBad>>, <<POpen>> }
ParseInputs ==
    { Reply(ps, to, FALSE, FALSE, FALSE, <<>>) :
        ps \in PartsPool, to \in {None, "save_file", "functions.save_file", "functions.read_file"} }

PInit ==
    /\ ppc = "start"
    /\ pin \in ParseInputs
    /\ pout = NoCall
    /\ XIdle /\ LIdle /\ OIdle

Parse ==
    /\ ppc = "start"
    /\ ppc' = "parsed"
    /\ pout' = ParseToolCall(pin)
    /\ UNCHANGED <<pin, xvars, lvars, ovars>>

PNext == Parse

SpecParse == PInit /\ [][PNext]_vars

\* The text is exactly one well-formed JSON object.
OneObject(r) == Len(r.parts) = 1 /\ r.parts[1].k = "obj"
HasNameAndContent(a) ==
    (Truthy(a.path) \/ Truthy(a.file_name)) /\ (Truthy(a.data) \/ Truthy(a.content))
\* The three accepted shapes naming save_file, with a file name and a content.
SaveShape1(r) ==
    /\ OneObject(r) /\ r.parts[1].v.tool = "save_file"
    /\ r.parts[1].v.args # NoObj /\ HasNameAndContent(r.parts[1].v.args)
SaveShape2(r) ==
    /\ OneObject(r) /\ r.parts[1].v.name = "save_file"
    /\ r.parts[1].v.arguments # NoObj /\ HasNameAndContent(r.parts[1].v.arguments)
SaveShape3(r) ==
    /\ OneObject(r) /\ r.to = "functions.save_file"
    /\ r.parts[1].v.tool = None /\ r.parts[1].v.name = None
    /\ HasNameAndContent(r.parts[1].v.own)

\* C8: for each of the three accepted shapes naming save_file, the parsed tool
\* call is save_file with args that contain both file_name and content.
C8_SaveFileArgsNormalized ==
    (ppc = "parsed" /\ (SaveShape1(pin) \/ SaveShape2(pin) \/ SaveShape3(pin))) =>
        /\ pout.tool = "save_file"
        /\ Truthy(pout.args.file_name)
        /\ Truthy(pout.args.content)

(***************************************************************************)
(* runAgentLoop and consult_secondary_agent (SpecLoop, Spec).              *)
(***************************************************************************)
PrimaryLimit == 8
ReviewerLimit == 5
MaxLoopLimit == 3
MaxRequests == 10

ToolsEnabled == cfg.allow_tools \/ forceTools
\* while (loops < loopLimit)
WhileCond(l, limit) == l < limit
\* loops >= loopLimit - 1
LastTurn(l, limit) == l >= limit - 1
\* Faulty variant: no phrase of the list is found.
IsRefusal_Never(r) == FALSE

\* refusalKeywords.some(kw => trimmed.toLowerCase().includes(kw))
IsRefusal(r) == r.refusal
\* Faulty variant: the completion marker is not looked for.
IsCompleted_Never(r) == FALSE

\* content.includes("TASK_COMPLETED")
IsCompleted(r) == r.completed
\* a non-empty string
NonEmpty(r) == r.text # <<>>

Msg(role, kind, text, result) == [role |-> role, kind |-> kind, text |-> text, result |-> result]
AssistantMsg(r) == Msg("assistant", "content", r, "")
CorrectiveMsg == Msg("system", "SYSTEM ERROR: You HAVE access to tools. USE THEM.", EmptyText, "")
NoticeMsg == Msg("system", "SYSTEM NOTICE: You did not call a tool.", EmptyText, "")
ToolOutputMsg(result) == Msg("user", "Tool Output", EmptyText, result)

\* The assistant texts the model may reply with.
SaveCall(name, c) == PObj(Obj("save_file", Args(None, None, name, c), None, NoObj, NoArgs))
UnknownCall == PObj(Obj("open_browser", NoArgs, None, NoObj, NoArgs))
Call(tool, args) == Reply(<<PObj(Obj(tool, args, None, NoObj, NoArgs))>>, None, FALSE, FALSE, FALSE,
                          <<Prose(10)>>)
\* Calls of the other tools of the dispatcher, with and without their arguments.
OtherCalls ==
    { Call("read_file", Args(None, None, "a.py", None)),
      Call("read_file", Args(None, None, None, "X")),
      Call("replace_text_in_file", [NoArgs EXCEPT !.file_name = "a.py", !.old_string = "X",
                                                  !.new_string = "Y"]),
      Call("delete_files_by_pattern", [NoArgs EXCEPT !.pattern = "py"]),
      Call("delete_files_by_pattern", [NoArgs EXCEPT !.pattern = "("]),
      Call("wikipedia_search", [NoArgs EXCEPT !.query = "q"]),
      Call("fetch_web_content", [NoArgs EXCEPT !.url = "u"]),
      Call("run_python", [NoArgs EXCEPT !.python = "p"]),
      Call("search_file_content", [NoArgs EXCEPT !.pattern = "py"]),
      Call("rag_web_content", [NoArgs EXCEPT !.query = "q"]),
      Call("run_javascript", [NoArgs EXCEPT !.javascript = "j"]) }
FinalTexts == { <<Prose(10)>>, <<Ann("a.py"), PyBlock1>>, <<PyBlock2>> }
LoopReplies ==
    { Reply(<<PText>>, None, TRUE, c, FALSE, <<Prose(10)>>) : c \in BOOLEAN }
    \cup { Reply(<<SaveCall("a.py", "X")>>, None, rf, c, FALSE, <<Prose(10)>>) :
             rf \in BOOLEAN, c \in BOOLEAN }
    \cup { Reply(<<SaveCall("../x.py", "X")>>, None, FALSE, FALSE, FALSE, <<Prose(10)>>),
           Reply(<<UnknownCall>>, None, FALSE, FALSE, FALSE, <<Prose(10)>>),
           Reply(<<PBad>>, None, FALSE, FALSE, FALSE, <<Prose(10)>>),
           Reply(<<PText>>, None, FALSE, FALSE, TRUE, <<Prose(10)>>),
           EmptyText }
    \cup { Reply(<<PText>>, None, FALSE, c, FALSE, t) : c \in BOOLEAN, t \in FinalTexts }
    \cup OtherCalls

\* The replies drawn in a consult_secondary_agent run (a smaller set, the two
\* runs of one delegation multiply).
ConsultReplies ==
    { Reply(<<PText>>, None, TRUE, FALSE, FALSE, <<Prose(10)>>),
      Reply(<<SaveCall("a.py", "X")>>, None, FALSE, FALSE, FALSE, <<Prose(10)>>),
      Reply(<<SaveCall("b.py", "Y")>>, None, FALSE, FALSE, FALSE, <<Prose(10)>>),
      Reply(<<PText>>, None, FALSE, FALSE, FALSE, <<Prose(10)>>) }
    \cup { Reply(<<PText>>, None, FALSE, TRUE, FALSE, t) : t \in FinalTexts }
Replies == IF phase = "standalone" THEN LoopReplies ELSE ConsultReplies

\* The most files one run is asked to save by tool calls.
MaxFiles == 2

Cfgs ==
    [allow_tools : BOOLEAN, allowFileSystem : BOOLEAN, allowWeb : {FALSE}, allowCode : {FALSE},
     allowPython : {FALSE}, autoSave : BOOLEAN, debugMode : BOOLEAN, showFullCode : BOOLEAN]
\* The settings drawn for one run of runAgentLoop; allowPython is the plugin's
\* allowPythonExecution || allowAllCode, allowCode the sub-agent's subAgentAllowCode.
Caps(fs, web, code, python, save) ==
    [allowFileSystem |-> fs, allowWeb |-> web, allowCode |-> code, allowPython |-> python,
     autoSave |-> save]
LoopCfgs ==
    { [allow_tools |-> t, allowFileSystem |-> k.allowFileSystem, allowWeb |-> k.allowWeb,
       allowCode |-> k.allowCode, allowPython |-> k.allowPython, autoSave |-> k.autoSave,
       debugMode |-> FALSE, showFullCode |-> FALSE] :
        t \in BOOLEAN,
        k \in { Caps(FALSE, FALSE, FALSE, FALSE, TRUE), Caps(TRUE, FALSE, FALSE, FALSE, TRUE),
                Caps(TRUE, FALSE, FALSE, TRUE, FALSE), Caps(FALSE, TRUE, FALSE, FALSE, FALSE),
                Caps(FALSE, FALSE, TRUE, FALSE, FALSE), Caps(FALSE, FALSE, TRUE, TRUE, FALSE),
                Caps(TRUE, TRUE, TRUE, TRUE, TRUE) } }
\* What the network or the Python script of a tool call does.
ExtOutcomes == {"ok", "empty", "throws"}
\* The tools whose result depends on it.
ExtTools == {"duckduckgo_search", "fetch_web_content", "run_python"}

\* The tool names appended to the system prompt under "Allowed Tools".
AllowedTools(c) ==
    IF c.allow_tools \/ forceTools
    THEN (IF c.allowFileSystem
          THEN {"read_file", "list_directory", "save_file", "replace_text_in_file",
                "delete_files_by_pattern", "rag_local_files", "search_file_content"}
          ELSE {})
         \cup (IF c.allowWeb
               THEN {"wikipedia_search", "duckduckgo_search", "fetch_web_content",
                     "rag_web_content"}
               ELSE {})
         \cup (IF c.allowCode THEN {"run_python", "run_javascript"} ELSE {})
    ELSE {}

\* The state of a run of runAgentLoop at its first while test.
RunStart(limit, force) ==
    /\ pc = "loop" /\ loopLimit = limit /\ forceTools = force
    /\ loops = 0 /\ requests = 0 /\ content = EmptyText /\ finalContent = EmptyText
    /\ filesModified = <<>> /\ msgCount = 2 /\ msgTail = <<>> /\ res = NoResult

\* One call of runAgentLoop with any loopLimit and forceTools.
LInit ==
    /\ cfg \in LoopCfgs
    /\ phase = "standalone"
    /\ \E limit \in 1..MaxLoopLimit, force \in BOOLEAN : RunStart(limit, force)
    /\ disk = EmptyDisk /\ infoLog = NoLog
    /\ primaryResult = NoResult /\ debugResult = NoResult /\ out = NoOut
    /\ XIdle /\ PIdle /\ OIdle

\* consult_secondary_agent with the secondary agent enabled.
Init ==
    /\ cfg \in Cfgs
    /\ phase = "primary"
    /\ RunStart(PrimaryLimit, FALSE)
    /\ disk = EmptyDisk /\ infoLog = NoLog
    /\ primaryResult = NoResult /\ debugResult = NoResult /\ out = NoOut
    /\ XIdle /\ PIdle /\ OIdle

Sending == pc = "loop" /\ WhileCond(loops, loopLimit) /\ requests < MaxRequests
Frame == UNCHANGED <<cfg, phase, loopLimit, forceTools, infoLog, primaryResult, debugResult, out,
                     xvars, pvars, ovars>>
\* Faulty variant: a turn that goes on does not count.
Continue_NoIncrement ==
    /\ loops' = loops
    /\ pc' = "loop"

\* loops++ and the next while test
Continue ==
    /\ loops' = loops + 1
    /\ pc' = IF WhileCond(loops + 1, loopLimit) THEN "loop" ELSE "post"

\* Faulty variant: the error is noted and the run goes on to its post-loop steps.
TransportError_NoReturn ==
    /\ Sending
    /\ \E e \in {"API Error", "fetch failed"} :
          res' = [response |-> EmptyText, filesModified |-> filesModified, error |-> e]
    /\ requests' = requests + 1
    /\ pc' = "post"
    /\ UNCHANGED <<loops, content, finalContent, filesModified, msgCount, msgTail, disk>>
    /\ Frame

\* if (!response.ok) return {error, filesModified}; catch (err) return {error, filesModified}
TransportError ==
    /\ Sending
    /\ \E e \in {"API Error", "fetch failed"} :
          res' = [response |-> EmptyText, filesModified |-> filesModified, error |-> e]
    /\ requests' = requests + 1
    /\ pc' = "ret"
    /\ UNCHANGED <<loops, content, finalContent, filesModified, msgCount, msgTail, disk>>
    /\ Frame

\* if (!toolsEnabled) return { response: content, filesModified };
ReplyToolsOff ==
    /\ Sending /\ ~ToolsEnabled
    /\ \E r \in Replies :
          /\ content' = Cleanup(r)
          /\ res' = [response |-> Cleanup(r), filesModified |-> filesModified, error |-> None]
    /\ requests' = requests + 1
    /\ pc' = "ret"
    /\ UNCHANGED <<loops, finalContent, filesModified, msgCount, msgTail, disk>>
    /\ Frame

\* Refusal check: push the text and the corrective message, loops++, continue.
Refusal ==
    /\ Sending /\ ToolsEnabled
    /\ \E r \in Replies :
          /\ IsRefusal(Cleanup(r))
          /\ content' = Cleanup(r)
          /\ msgTail' = <<AssistantMsg(Cleanup(r)), CorrectiveMsg>>
    /\ msgCount' = msgCount + 2
    /\ requests' = requests + 1
    /\ Continue
    /\ UNCHANGED <<finalContent, filesModified, disk, res>>
    /\ Frame

\* if (toolCall && toolCall.tool): push the text, run the tool, push its output, loops++.
ToolTurn ==
    /\ Sending /\ ToolsEnabled
    /\ \E r \in Replies, ext \in ExtOutcomes :
          LET c == Cleanup(r)
              call == ParseToolCall(c)
              o == Dispatch(call, disk, filesModified, cfg, ext)
          IN /\ ~IsRefusal(c)
             /\ Truthy(call.tool)
             /\ ext = "ok" \/ call.tool \in ExtTools
             /\ Len(o.fm) <= MaxFiles
             /\ content' = c
             /\ msgTail' = <<AssistantMsg(c), ToolOutputMsg(o.toolResult)>>
             /\ disk' = o.disk
             /\ filesModified' = o.fm
    /\ msgCount' = msgCount + 2
    /\ requests' = requests + 1
    /\ Continue
    /\ UNCHANGED <<finalContent, res>>
    /\ Frame

\* No tool call, TASK_COMPLETED or the last allowed turn: finalContent = content; break.
NoCallDone ==
    /\ Sending /\ ToolsEnabled
    /\ \E r \in Replies :
          LET c == Cleanup(r) IN
          /\ ~IsRefusal(c)
          /\ ~Truthy(ParseToolCall(c).tool)
          /\ IsCompleted(c) \/ LastTurn(loops, loopLimit)
          /\ content' = c
          /\ finalContent' = c
    /\ requests' = requests + 1
    /\ pc' = "post"
    /\ UNCHANGED <<loops, filesModified, msgCount, msgTail, disk, res>>
    /\ Frame

\* No tool call, no marker, turns left: push the text and the notice, loops++.
NoCallNudge ==
    /\ Sending /\ ToolsEnabled
    /\ \E r \in Replies :
          LET c == Cleanup(r) IN
          /\ ~IsRefusal(c)
          /\ ~Truthy(ParseToolCall(c).tool)
          /\ ~(IsCompleted(c) \/ LastTurn(loops, loopLimit))
          /\ content' = c
          /\ msgTail' = <<AssistantMsg(c), NoticeMsg>>
    /\ msgCount' = msgCount + 2
    /\ requests' = requests + 1
    /\ Continue
    /\ UNCHANGED <<finalContent, filesModified, disk, res>>
    /\ Frame

\* appendFile(infoPath, logEntry), on failure writeFile(infoPath, header + logEntry).
Record(log, files, outcome) ==
    CASE outcome = "appended" -> [exists |-> TRUE, lines |-> Append(log.lines, files)]
      [] outcome = "rewritten" -> [exists |-> TRUE, lines |-> <<"# Project History", files>>]
      [] OTHER -> log

\* The outcomes of the log write drawn in a run (failures in a stand-alone run only).
LogOutcomes == IF phase = "standalone" THEN {"appended", "rewritten", "failed"} ELSE {"appended"}

\* After the loop: Auto-Save Logic, Auto-Update Project Info, return.
PostLoop ==
    /\ pc = "post"
    /\ LET x == IF cfg.autoSave /\ cfg.allowFileSystem /\ NonEmpty(finalContent)
                 THEN extract(finalContent.text, disk, filesModified)
                 ELSE XState(finalContent.text, disk, filesModified)
       IN /\ disk' = x.disk
          /\ filesModified' = x.fm
          /\ finalContent' = [finalContent EXCEPT !.text = x.text]
          /\ res' = [response |-> [finalContent EXCEPT !.text = x.text],
                      filesModified |-> x.fm, error |-> None]
          /\ IF Len(x.fm) > 0 /\ cfg.allowFileSystem
             THEN \E o \in LogOutcomes : infoLog' = Record(infoLog, x.fm, o)
             ELSE infoLog' = infoLog
    /\ pc' = "ret"
    /\ UNCHANGED <<loops, requests, content, msgCount, msgTail>>
    /\ UNCHANGED <<cfg, phase, loopLimit, forceTools, primaryResult, debugResult, out, xvars, pvars, ovars>>

LoopNext == TransportError \/ ReplyToolsOff \/ Refusal \/ ToolTurn \/ NoCallDone \/ NoCallNudge \/ PostLoop

SpecLoop == LInit /\ [][LoopNext]_vars

\* Tokens of the response: a hidden code block, the Auto-Debug heading.
Hidden == [kind |-> "hidden"]
\* finalResponse.replace(/```[\s\S]*?```/g, "[System: Code Block Hidden for Brevity...]")
HideBlocks(text) == [i \in 1..Len(text) |-> IF text[i].kind = "block" THEN Hidden ELSE text[i]]
\* primaryResult.filesModified.map(f => isAbsolute(f) ? f : join(cwd, f))
FullPaths(fm) == [k \in 1..Len(fm) |-> Join(WorkDir, fm[k])]
\* The files read back for the "Generated Code Content" section.
CodeContent(fm, d) ==
    LET ok == SelectSeq(fm, LAMBDA f : Join(WorkDir, f) \in DOMAIN d)
    IN [k \in 1..Len(ok) |-> [name |-> ok[k], content |-> d[Join(WorkDir, ok[k])]]]

\* The response object built after the loops: the primary text, the Auto-Debug
\* report and the reviewer's files (when the reviewer ran), the
\* [GENERATED_FILES] trailer, the generated code section.
Compose(pr, dr, reviewed, c, d) ==
    LET report == IF reviewed
                  THEN (IF dr.error = None /\ NonEmpty(dr.response) THEN dr.response.text
                        ELSE <<Prose(10)>>)
                  ELSE <<>>
    IN [error |-> None,
        response |->
          [text |-> IF c.showFullCode THEN pr.response.text ELSE HideBlocks(pr.response.text),
           reviewed |-> reviewed,
           report |-> IF c.showFullCode THEN report ELSE HideBlocks(report),
           fixed |-> IF reviewed THEN dr.filesModified ELSE <<>>,
           trailer |-> FullPaths(pr.filesModified),
           code |-> IF c.showFullCode THEN CodeContent(pr.filesModified, d) ELSE <<>>],
        generated_files |-> pr.filesModified]

CFrame == UNCHANGED <<cfg, disk, infoLog, xvars, pvars, ovars>>
RunFrame == UNCHANGED <<pc, loopLimit, forceTools, loops, requests, content, finalContent,
                        filesModified, msgCount, msgTail, res>>

\* if (primaryResult.error) return { error: primaryResult.error };
ReturnError ==
    /\ phase = "primary" /\ pc = "ret"
    /\ res.error # None
    /\ primaryResult' = res
    /\ out' = [error |-> res.error, response |-> None, generated_files |-> None]
    /\ phase' = "finished"
    /\ UNCHANGED debugResult
    /\ RunFrame /\ CFrame

\* Faulty variant: the reviewer runs with the caller's allow_tools and the primary's budget.
StartReviewer_AsPrimary ==
    /\ phase = "primary" /\ pc = "ret"
    /\ res.error = None
    /\ cfg.debugMode /\ Len(res.filesModified) > 0
    /\ primaryResult' = res
    /\ phase' = "reviewer"
    /\ pc' = "loop" /\ loopLimit' = PrimaryLimit /\ forceTools' = FALSE
    /\ loops' = 0 /\ requests' = 0 /\ content' = EmptyText /\ finalContent' = EmptyText
    /\ filesModified' = <<>> /\ msgCount' = 2 /\ msgTail' = <<>> /\ res' = NoResult
    /\ UNCHANGED <<debugResult, out>>
    /\ CFrame

\* if (debugMode && primaryResult.filesModified.length > 0) runAgentLoop("reviewer", ..., 5, true, ...)
StartReviewer ==
    /\ phase = "primary" /\ pc = "ret"
    /\ res.error = None
    /\ cfg.debugMode /\ Len(res.filesModified) > 0
    /\ primaryResult' = res
    /\ phase' = "reviewer"
    /\ pc' = "loop" /\ loopLimit' = ReviewerLimit /\ forceTools' = TRUE
    /\ loops' = 0 /\ requests' = 0 /\ content' = EmptyText /\ finalContent' = EmptyText
    /\ filesModified' = <<>> /\ msgCount' = 2 /\ msgTail' = <<>> /\ res' = NoResult
    /\ UNCHANGED <<debugResult, out>>
    /\ CFrame

\* No review pass: build the response and return.
FinishPrimary ==
    /\ phase = "primary" /\ pc = "ret"
    /\ res.error = None
    /\ ~(cfg.debugMode /\ Len(res.filesModified) > 0)
    /\ primaryResult' = res
    /\ out' = Compose(res, NoResult, FALSE, cfg, disk)
    /\ phase' = "finished"
    /\ UNCHANGED debugResult
    /\ RunFrame /\ CFrame

\* The reviewer returned: build the response and return.
FinishReviewed ==
    /\ phase = "reviewer" /\ pc = "ret"
    /\ debugResult' = res
    /\ out' = Compose(primaryResult, res, TRUE, cfg, disk)
    /\ phase' = "finished"
    /\ UNCHANGED primaryResult
    /\ RunFrame /\ CFrame

ConsultNext == ReturnError \/ StartReviewer \/ FinishPrimary \/ FinishReviewed

Next == LoopNext \/ ConsultNext

Spec == Init /\ [][Next]_vars

HasCall(r) == Truthy(ParseToolCall(r).tool)
\* The loop was left after the reply of the last allowed turn.
AfterLastTurn == pc = "post" /\ requests = loopLimit

C9_MarkerAlwaysEndsLoop ==
    (ToolsEnabled /\ IsCompleted(content)) =>
        /\ pc # "loop"
        /\ pc = "post" => finalContent = content

\* C9 (amended): with tools enabled, a text that contains TASK_COMPLETED and
\* holds neither a refusal phrase nor a tool call ends the loop at that turn,
\* successfully, with that text as the final text and no further request.
C9_MarkerEndsLoop ==
    (ToolsEnabled /\ content.completed /\ ~IsRefusal(content) /\ ~HasCall(content)) =>
        /\ pc # "loop"
        /\ pc = "post" => finalContent = content
        /\ pc = "ret" => (res.error = None /\ res.response = finalContent)

\* TASK_COMPLETED ended a run before its last allowed turn.
C9_Witness ==
    /\ ToolsEnabled /\ pc = "post"
    /\ content.completed /\ ~IsRefusal(content) /\ ~HasCall(content)
    /\ requests < loopLimit
    /\ finalContent = content

\* C10: the result of consult_secondary_agent reports every file the primary
\* session recorded, in generated_files and in the [GENERATED_FILES] trailer,
\* in every outcome of the primary loop.
C10_AllFilesReported ==
    phase = "finished" =>
        \A k \in 1..Len(primaryResult.filesModified) :
            /\ out.error = None
            /\ \E j \in 1..Len(out.generated_files) :
                  out.generated_files[j] = primaryResult.filesModified[k]
            /\ \E j \in 1..Len(out.response.trailer) :
                  out.response.trailer[j] = Join(WorkDir, primaryResult.filesModified[k])

\* C11: every "Code Block Hidden" marker of the returned response stands for
\* a code block whose code was written to a workspace file; a block that
\* was not saved, or a block of the Auto-Debug report, is never hidden.
C11_HiddenMeansSaved ==
    (phase = "finished" /\ out.error = None) =>
        /\ \A i \in 1..Len(out.response.text) :
              out.response.text[i] = Hidden =>
                 \E p \in DOMAIN disk : disk[p] = primaryResult.response.text[i].body.id
        /\ \A i \in 1..Len(out.response.report) : out.response.report[i] # Hidden

(***************************************************************************)
(* The file-system tools registered by the tools provider (SpecTools).     *)
(***************************************************************************)
MaxToolCalls == 2

\* What a tool call did: the files and directories after it, the paths it
\* handed to the file system, and whether it returned without error.
Fs(d, dirs, touched, ok) == [disk |-> d, dirs |-> dirs, touched |-> touched, ok |-> ok]
\* mkdir(p, { recursive: true })
MkdirP(dirs, p) == dirs \cup { SubSeq(p, 1, k) : k \in 0..Len(p) }
\* rm(p, { recursive: true, force: true })
Below(p, q) == Len(q) >= Len(p) /\ SubSeq(q, 1, Len(p)) = p
RmRf(d, p) == [q \in { q \in DOMAIN d : ~Below(p, q) } |-> d[q]]
\* writeFile(p, c): fails when the parent directory is missing
CanWrite(dirs, p) == Dirname(p) \in dirs /\ p \notin dirs

save_file(d, dirs, file_name, c) ==
    LET v == validatePath(WorkDir, file_name) IN
    IF ~v.ok THEN Fs(d, dirs, {}, FALSE)
    ELSE IF v.path \in dirs THEN Fs(d, MkdirP(dirs, Dirname(v.path)), {v.path}, FALSE)
    ELSE Fs(WriteFile(d, v.path, c), MkdirP(dirs, Dirname(v.path)), {v.path}, TRUE)

replace_text_in_file(d, dirs, file_name, old_string, new_string) ==
    LET v == validatePath(WorkDir, file_name) IN
    IF ~v.ok THEN Fs(d, dirs, {}, FALSE)
    ELSE IF v.path \notin DOMAIN d THEN Fs(d, dirs, {v.path}, FALSE)
    ELSE IF d[v.path] # old_string THEN Fs(d, dirs, {v.path}, FALSE)
    ELSE Fs(WriteFile(d, v.path, new_string), dirs, {v.path}, TRUE)

\* path is optional: None lists the working directory itself
list_directory(d, dirs, path) ==
    IF ~Truthy(path) THEN Fs(d, dirs, {WorkDir}, WorkDir \in dirs)
    ELSE LET v == validatePath(WorkDir, path) IN
         IF ~v.ok THEN Fs(d, dirs, {}, FALSE)
         ELSE Fs(d, dirs, {v.path}, v.path \in dirs)

read_file(d, dirs, file_name) ==
    LET v == validatePath(WorkDir, file_name) IN
    IF ~v.ok THEN Fs(d, dirs, {}, FALSE)
    ELSE Fs(d, dirs, {v.path}, v.path \in DOMAIN d)

make_directory(d, dirs, directory_name) ==
    LET v == validatePath(WorkDir, directory_name) IN
    IF ~v.ok THEN Fs(d, dirs, {}, FALSE)
    ELSE IF v.path \in DOMAIN d THEN Fs(d, dirs, {v.path}, FALSE)
    ELSE Fs(d, MkdirP(dirs, v.path), {v.path}, TRUE)

delete_path(d, dirs, path) ==
    LET v == validatePath(WorkDir, path) IN
    IF ~v.ok THEN Fs(d, dirs, {}, FALSE)
    ELSE Fs(RmRf(d, v.path), { q \in dirs : ~Below(v.path, q) }, {v.path}, TRUE)

\* rename(sourcePath, destPath) of a file
move_file(d, dirs, source, destination) ==
    LET sourcePath == Join(WorkDir, source)
        destPath == Join(WorkDir, destination)
    IN IF sourcePath \notin DOMAIN d \/ ~CanWrite(dirs, destPath)
       THEN Fs(d, dirs, {sourcePath, destPath}, FALSE)
       ELSE Fs([q \in (DOMAIN d \ {sourcePath}) \cup {destPath} |->
                   IF q = destPath THEN d[sourcePath] ELSE d[q]],
               dirs, {sourcePath, destPath}, TRUE)

copy_file(d, dirs, source, destination) ==
    LET sourcePath == Join(WorkDir, source)
        destPath == Join(WorkDir, destination)
    IN IF sourcePath \notin DOMAIN d \/ ~CanWrite(dirs, destPath)
       THEN Fs(d, dirs, {sourcePath, destPath}, FALSE)
       ELSE Fs(WriteFile(d, destPath, d[sourcePath]), dirs, {sourcePath, destPath}, TRUE)

get_file_metadata(d, dirs, path) ==
    LET targetPath == Join(WorkDir, path) IN
    Fs(d, dirs, {targetPath}, targetPath \in DOMAIN d \/ targetPath \in dirs)

\* file_name is optional: None stands for preview_<timestamp>.html
preview_html(d, dirs, html_content, file_name) ==
    LET name == IF Truthy(file_name) THEN file_name ELSE "preview.html"
        filePath == Join(WorkDir, name)
    IN IF ~CanWrite(dirs, filePath) THEN Fs(d, dirs, {filePath}, FALSE)
       ELSE Fs(WriteFile(d, filePath, html_content), dirs, {filePath}, TRUE)

\* The argument values drawn for the tools.
FileNames == {"a.py", "b.py", "../x.py", "../ws2/y.py", "../WS/z.py"}
DirNames == {"sub", "../ws2", ".."}
Contents == {"A", "B"}

\* A machine with a workspace /ws, a sibling directory /ws2 and files outside.
TInit ==
    /\ tpc = "ready"
    /\ tdisk = WriteFile(WriteFile(WriteFile(EmptyDisk, <<"ws", "a.py">>, "A"),
                                   <<"x.py">>, "A"), <<"ws2", "y.py">>, "B")
    /\ tdirs = {<<>>, <<"ws">>, <<"ws2">>}
    /\ ttouched = {} /\ tok = TRUE /\ tcalls = 0 /\ tlast = NoToolCall
    /\ XIdle /\ PIdle /\ LIdle /\ SIdle

CanCall == tpc = "ready" /\ tcalls < MaxToolCalls
\* One call of a tool with a path argument, with the effect r.
Called(tool, path, r) ==
    /\ tdisk' = r.disk /\ tdirs' = r.dirs /\ ttouched' = r.touched /\ tok' = r.ok
    /\ tcalls' = tcalls + 1 /\ tlast' = [tool |-> tool, path |-> path]
    /\ UNCHANGED <<tpc, xvars, pvars, lvars, svars>>

saveFileTool ==
    CanCall /\ \E n \in FileNames, c \in Contents : Called("save_file", n, save_file(tdisk, tdirs, n, c))
replaceTextTool ==
    CanCall /\ \E n \in FileNames, o \in Contents, c \in Contents :
                  Called("replace_text_in_file", n, replace_text_in_file(tdisk, tdirs, n, o, c))
listDirectoryTool ==
    CanCall /\ \E n \in DirNames \cup {None} : Called("list_directory", n, list_directory(tdisk, tdirs, n))
readFileTool ==
    CanCall /\ \E n \in FileNames : Called("read_file", n, read_file(tdisk, tdirs, n))
makeDirectoryTool ==
    CanCall /\ \E n \in DirNames : Called("make_directory", n, make_directory(tdisk, tdirs, n))
deletePathTool ==
    CanCall /\ \E n \in FileNames \cup DirNames : Called("delete_path", n, delete_path(tdisk, tdirs, n))
moveFileTool ==
    CanCall /\ \E a \in FileNames, b \in FileNames : Called("move_file", b, move_file(tdisk, tdirs, a, b))
copyFileTool ==
    CanCall /\ \E a \in FileNames, b \in FileNames : Called("copy_file", b, copy_file(tdisk, tdirs, a, b))
getFileMetadataTool ==
    CanCall /\ \E n \in FileNames \cup DirNames : Called("get_file_metadata", n, get_file_metadata(tdisk, tdirs, n))
previewHtmlTool ==
    CanCall /\ \E n \in FileNames \cup {None}, c \in Contents :
                  Called("preview_html", n, preview_html(tdisk, tdirs, c, n))

TNext ==
    \/ saveFileTool \/ replaceTextTool \/ listDirectoryTool \/ readFileTool
    \/ makeDirectoryTool \/ deletePathTool \/ moveFileTool \/ copyFileTool
    \/ getFileMetadataTool \/ previewHtmlTool

SpecTools == TInit /\ [][TNext]_vars

\* C12: no file-system tool of the tools provider hands a path outside the
\* workspace directory to the file system: for every argument value each path
\* read, written, moved, copied or deleted lies inside the workspace.
C12_FsToolsStayInside == \A q \in ttouched : Inside(WorkDir, q)

(***************************************************************************)
(* The persisted plugin state: stateManager, change_directory of the       *)
(* tools provider, and the prompt preprocessor (SpecState).                *)
(***************************************************************************)
NumInstances == 2
MaxStateOps == 4

\* The directories that exist (stat(newPath).isDirectory()).
SDirs == {<<>>, <<"ws">>, <<"ws", "sub">>, <<"ws2">>}
CdArgs == {"sub", "..", "../ws2", "a.py"}

\* getPersistedState(): the object parsed from the file
getPersistedState(file) == file
\* savePersistedState(state): the file holds JSON.stringify(state)
savePersistedState(state) == state

Unloaded == [loaded |-> FALSE, fullState |-> PluginState(WorkDir, FALSE),
             currentWorkingDirectory |-> WorkDir, pc |-> "idle"]

SInit ==
    /\ stored = PluginState(WorkDir, FALSE)
    /\ inst = [i \in 1..NumInstances |-> Unloaded]
    /\ pre = [pc |-> "idle", state |-> PluginState(WorkDir, FALSE)]
    /\ lastChange = NoChange
    /\ sops = 0
    /\ XIdle /\ PIdle /\ LIdle /\ TIdle

SFrame == UNCHANGED <<xvars, pvars, lvars, tvars>>

\* toolsProvider(ctl): fullState = await getPersistedState()
LoadProvider(i) ==
    /\ ~inst[i].loaded
    /\ inst' = [inst EXCEPT ![i] = [loaded |-> TRUE, fullState |-> getPersistedState(stored),
                                    currentWorkingDirectory |-> stored.currentWorkingDirectory,
                                    pc |-> "idle"]]
    /\ UNCHANGED <<stored, pre, lastChange, sops>>
    /\ SFrame

\* change_directory up to its await on savePersistedState
ChangeDirectory(i) ==
    /\ inst[i].loaded /\ inst[i].pc = "idle" /\ sops < MaxStateOps
    /\ \E directory \in CdArgs :
         LET newPath == Resolve(inst[i].currentWorkingDirectory, directory) IN
         IF newPath \in SDirs
         THEN inst' = [inst EXCEPT ![i].currentWorkingDirectory = newPath,
                                   ![i].fullState.currentWorkingDirectory = newPath,
                                   ![i].pc = "saving"]
         ELSE inst' = inst
    /\ sops' = sops + 1
    /\ UNCHANGED <<stored, pre, lastChange>>
    /\ SFrame

\* the write of savePersistedState(fullState), and change_directory returns
ChangeDirectorySaved(i) ==
    /\ inst[i].pc = "saving"
    /\ stored' = savePersistedState(inst[i].fullState)
    /\ lastChange' = [made |-> TRUE, dir |-> inst[i].currentWorkingDirectory]
    /\ inst' = [inst EXCEPT ![i].pc = "idle"]
    /\ UNCHANGED <<pre, sops>>
    /\ SFrame

\* promptPreprocessor: const state = await getPersistedState()
PreRead ==
    /\ pre.pc = "idle" /\ sops < MaxStateOps
    /\ pre' = [pc |-> IF ~stored.subAgentDocsInjected THEN "docs" ELSE "count",
               state |-> getPersistedState(stored)]
    /\ sops' = sops + 1
    /\ UNCHANGED <<stored, inst, lastChange>>
    /\ SFrame

\* subagent_docs.md read: state.subAgentDocsInjected = true; savePersistedState(state); the
\* changed prompt is returned
PreInject ==
    /\ pre.pc = "docs"
    /\ stored' = savePersistedState([pre.state EXCEPT !.subAgentDocsInjected = TRUE])
    /\ pre' = [pre EXCEPT !.pc = "idle"]
    /\ UNCHANGED <<inst, lastChange, sops>>
    /\ SFrame

\* subagent_docs.md not found: no injection; the run returns or goes on to the message count
PreNoDocs ==
    /\ pre.pc = "docs"
    /\ \E next \in {"idle", "count"} : pre' = [pre EXCEPT !.pc = next]
    /\ UNCHANGED <<stored, inst, lastChange, sops>>
    /\ SFrame

\* const state = await getPersistedState(); state.messageCount++
PreCountRead ==
    /\ pre.pc = "count"
    /\ pre' = [pc |-> "counted", state |-> getPersistedState(stored)]
    /\ UNCHANGED <<stored, inst, lastChange, sops>>
    /\ SFrame

\* await savePersistedState(state)
PreCountSave ==
    /\ pre.pc = "counted"
    /\ stored' = savePersistedState(pre.state)
    /\ pre' = [pre EXCEPT !.pc = "idle"]
    /\ UNCHANGED <<inst, lastChange, sops>>
    /\ SFrame

SNext ==
    \/ \E i \in 1..NumInstances : LoadProvider(i) \/ ChangeDirectory(i) \/ ChangeDirectorySaved(i)
    \/ PreRead \/ PreInject \/ PreNoDocs \/ PreCountRead \/ PreCountSave

SpecState == SInit /\ [][SNext]_vars

\* C13: the persisted state never loses an update: the stored working
\* directory is the one set by the latest change_directory that returned, and
\* a stored subAgentDocsInjected flag is never cleared by a later save.
C13_NoLostUpdate ==
    /\ [](lastChange.made => stored.currentWorkingDirectory = lastChange.dir)
    /\ [][stored.subAgentDocsInjected => stored'.subAgentDocsInjected]_vars

\* A step in which a request was answered by the model (no transport error).
Answered == requests' = requests + 1 /\ res'.error = None
\* The turn pushed the text and one corrective message, counted, and ran no tool.
HandledAsRefusal ==
    /\ msgTail' = <<AssistantMsg(content'), CorrectiveMsg>>
    /\ msgCount' = msgCount + 2
    /\ loops' = loops + 1
    /\ disk' = disk /\ filesModified' = filesModified /\ infoLog' = infoLog

\* C14 as stated: whenever the text of a turn holds a refusal phrase, the turn
\* is handled as a refusal, also when it holds a tool call, and the loop goes
\* on to the next model request.
C14_RefusalAlwaysHandled ==
    [][(Answered /\ content'.refusal) => (HandledAsRefusal /\ pc' = "loop")]_vars

\* C14 (amended): in a tools-enabled session, whenever the text of a turn
\* holds a refusal phrase, the turn is handled as a refusal, also when it
\* holds a tool call: no tool is dispatched, the text and exactly one
\* corrective message are appended, the turn counter increases by one, and
\* the loop goes on to the next request if a turn is left, else it ends.
C14_RefusalHandled ==
    [][(Answered /\ ToolsEnabled /\ content'.refusal) =>
          /\ HandledAsRefusal
          /\ pc' = IF loops' < loopLimit THEN "loop" ELSE "post"]_vars

\* A text with a refusal phrase and a well-formed tool call was handled as a
\* refusal and the loop went on.
C14_Witness ==
    /\ pc = "loop" /\ loops >= 1
    /\ content.refusal /\ HasCall(content)
    /\ msgTail = <<AssistantMsg(content), CorrectiveMsg>>
    /\ disk = EmptyDisk

\* C15: a non-2xx response or a thrown transport exception ends the loop at
\* once with error set and filesModified equal to the files saved by tool
\* calls so far; the request is not sent again, and no later turn, no
\* extraction and no history record happen in that run.
C15_TransportErrorEndsRun ==
    /\ [][(requests' = requests + 1 /\ res'.error # None) =>
            /\ pc' = "ret"
            /\ res'.filesModified = filesModified
            /\ UNCHANGED <<filesModified, disk, infoLog, loops, finalContent, msgCount>>]_vars
    /\ [][res.error # None => UNCHANGED <<res, requests, disk, infoLog, pc>>]_vars
    /\ [](res.error # None =>
            /\ pc = "ret" /\ infoLog = NoLog /\ finalContent = EmptyText
            /\ \A q \in DOMAIN disk :
                  \E k \in 1..Len(res.filesModified) : Resolve(WorkDir, res.filesModified[k]) = q)

\* A run that had saved a file by a tool call ended on a failed request.
C15_Witness ==
    /\ pc = "ret" /\ res.error # None
    /\ requests >= 2 /\ Len(res.filesModified) >= 1
    /\ res.filesModified = filesModified

\* The tool names the dispatcher has a branch for, by capability category.
FsHandled == {"read_file", "list_directory", "save_file", "replace_text_in_file",
              "delete_files_by_pattern", "rag_local_files"}
WebHandled == {"wikipedia_search", "duckduckgo_search", "fetch_web_content"}
CodeHandled == {"run_python"}
ErrorStrings == {ErrNotFound, ErrMissingArgs, ErrNoValidFiles, ErrAccessDenied, ErrNoEntry,
                 ErrOldString, ErrOccurrences, ErrRegex, ErrThrown}
\* The tool of the call is unknown or its category is disabled.
NotAllowed(call) ==
    \/ call.tool \notin FsHandled \cup WebHandled \cup CodeHandled
    \/ call.tool \in FsHandled /\ ~cfg.allowFileSystem
    \/ call.tool \in WebHandled /\ ~cfg.allowWeb
    \/ call.tool \in CodeHandled /\ ~cfg.allowCode
\* A save_file call without a name or a content, or with a path outside the workspace.
BadSave(call) ==
    /\ call.tool = "save_file" /\ cfg.allowFileSystem /\ ~call.args.files.isArray
    /\ LET fileName == Or3(call.args.file_name, call.args.name, call.args.path)
           c == Or2(call.args.content, call.args.data)
       IN ~Truthy(fileName) \/ ~Truthy(c) \/ ~validatePath(WorkDir, fileName).ok
\* A step in which the reply of a tools-enabled turn held a tool call and no refusal.
ToolCallTurn == Answered /\ ToolsEnabled /\ ~content'.refusal /\ HasCall(content')

ObjectThenMore(r) == Len(r.parts) >= 2 /\ r.parts[1].k = "obj"
\* The same text cut after its first object.
FirstObjectAlone(r) == [r EXCEPT !.parts = <<r.parts[1]>>]

\* C17: the parser's result depends only on the first well-formed {...} span:
\* a valid tool-call object followed by further text yields the same tool
\* call as the object alone, and a first span that fails to parse yields
\* "no call".
C17_FirstSpanDecides ==
    ppc = "parsed" =>
        /\ ObjectThenMore(pin) => pout = ParseToolCall(FirstObjectAlone(pin))
        /\ (pin.parts # <<>> /\ pin.parts[1].k \in {"badobj", "open"}) => pout = NoCall

\* C18: during an auto-debug review pass no artifact extraction is run over
\* the reviewer's final text: the step after the reviewer's loop leaves every
\* workspace file unchanged, so the workspace changes in the review pass only
\* through tool calls made inside the reviewer's loop.
C18_NoExtractionInReview ==
    [][(phase = "reviewer" /\ pc = "post") => disk' = disk]_vars

\* The entries of a list.
Entries(list) == { list[k] : k \in 1..Len(list) }

\* C19: after an auto-debug pass the file list reported to the caller
\* (generated_files and the [GENERATED_FILES] trailer) holds every file of the
\* primary pass's filesModified and every file of the reviewer's.
C19_ReportedFilesAreUnion ==
    (phase = "finished" /\ out.error = None /\ out.response.reviewed) =>
        \A f \in Entries(primaryResult.filesModified) \cup Entries(debugResult.filesModified) :
            /\ f \in Entries(out.generated_files)
            /\ Join(WorkDir, f) \in Entries(out.response.trailer)

\* The primary pass returned without error and recorded a file, with auto-debug on.
ReviewDue(r) == cfg.debugMode /\ r.error = None /\ Len(r.filesModified) > 0

\* C20: the reviewer loop runs exactly when auto-debug is enabled and the
\* primary pass returned without error with a non-empty filesModified; it
\* starts only after the primary run has returned, it runs with tools forced
\* on, and its turn budget (5) is strictly smaller than the primary's (8).
C20_ReviewerRunsWhenDue ==
    /\ [](/\ phase = "primary" => (loopLimit = 8 /\ ~forceTools /\ debugResult = NoResult)
          /\ phase = "reviewer" =>
                /\ ReviewDue(primaryResult)
                /\ forceTools /\ loopLimit = 5 /\ loopLimit < 8
                /\ requests <= 5
          /\ phase = "finished" =>
                IF ReviewDue(primaryResult)
                THEN out.error = None /\ out.response.reviewed
                ELSE debugResult = NoResult /\ (out.error = None => ~out.response.reviewed))
    /\ [][/\ (phase = "primary" /\ phase' # "primary") =>
                /\ pc = "ret" /\ primaryResult' = res
                /\ (phase' = "reviewer") <=> ReviewDue(res)
          /\ (phase = "primary" /\ phase' = "reviewer") =>
                /\ pc' = "loop" /\ loops' = 0 /\ requests' = 0 /\ filesModified' = <<>>
                /\ disk' = disk
          /\ (phase = "reviewer" /\ requests' = requests + 1 /\ res'.error = None) =>
                (HasCall(content') => msgTail'[2].kind = "Tool Output")]_vars

\* The reviewer ran its five turns after a primary pass that saved a file.
C20_Witness ==
    /\ phase = "reviewer" /\ requests = 5 /\ loops = 5 /\ pc = "post"
    /\ Len(primaryResult.filesModified) > 0 /\ cfg.debugMode

\* One list is the beginning of the other.
IsPrefix(a, b) == Len(a) <= Len(b) /\ SubSeq(b, 1, Len(a)) = a

\* C21: the History Logger is append-only: the content the project log had
\* before a record call is a prefix of its content after it, each call adds
\* exactly one entry, a log that did not exist is created with a header
\* followed by the entry, and a failed write leaves the run returning normally.
C21_LogAppendOnly ==
    [][(pc = "post" /\ Len(filesModified') > 0 /\ cfg.allowFileSystem) =>
          /\ pc' = "ret" /\ res'.error = None
          /\ IsPrefix(infoLog.lines, infoLog'.lines)
          /\ infoLog'.lines # infoLog.lines =>
                IF infoLog.exists
                THEN infoLog'.lines = Append(infoLog.lines, filesModified')
                ELSE infoLog'.lines = <<"# Project History", filesModified'>>]_vars

\* C22: in a delegation with auto-debug enabled in which files were modified
\* the History Logger records after the reviewer pass: the project log does
\* not change before the reviewer's loop has ended.
C22_LogAfterReview ==
    [][(cfg.debugMode /\ Len(filesModified') > 0 /\ infoLog' # infoLog) =>
          (phase = "reviewer" /\ pc = "post")]_vars

\* No entry of the list occurs twice.
NoDuplicates(list) == \A i, j \in 1..Len(list) : list[i] = list[j] => i = j

\* C23: filesModified is an ordered set: in every state of a run and in the
\* value returned to the caller no path occurs twice.
C23_FilesModifiedIsSet ==
    /\ NoDuplicates(filesModified)
    /\ NoDuplicates(res.filesModified)

\* C24: the loop is left only through the no-call transition or an error: in
\* a tools-enabled run that left the loop without error the final text is the
\* text of the model's last reply, also when the last allowed turn was a tool
\* call or a refusal.
C24_LoopEndsWithFinalText ==
    (pc = "post" /\ ToolsEnabled /\ res.error = None /\ requests >= 1) =>
        /\ finalContent = content
        /\ ~IsRefusal(content) /\ ~HasCall(content)

\* C25: whenever the primary loop ends without error and auto-save and
\* file-system access are enabled, the extractor has run over the final text
\* when the run returns, with allow_tools on or off: a code block of the last
\* reply with a filename annotation before it is on disk under that name.
C25_ExtractionAlwaysRuns ==
    (phase = "primary" /\ pc = "ret" /\ res.error = None /\ cfg.autoSave /\ cfg.allowFileSystem) =>
        \A i \in 2..Len(content.text) :
            (content.text[i].kind = "block" /\ content.text[i - 1].kind = "ann") =>
                /\ Join(WorkDir, content.text[i - 1].name) \in DOMAIN disk
                /\ disk[Join(WorkDir, content.text[i - 1].name)] = content.text[i].body.id

\* The tools of the tools provider that pass their path argument to validatePath.
ValidatedTools == {"read_file", "save_file", "replace_text_in_file", "list_directory",
                   "make_directory", "delete_path"}

\* C26: validatePath returns a path only when the resolved path is baseDir
\* itself or lies below it; for every other requested path the calling tool
\* gets 'Access Denied' and performs no file-system operation.
C26_ValidatePathContains ==
    (tlast.tool \in ValidatedTools /\ Truthy(tlast.path)) =>
        LET v == validatePath(WorkDir, tlast.path) IN
        /\ v.ok <=> Inside(WorkDir, Resolve(WorkDir, tlast.path))
        /\ ~Inside(WorkDir, Resolve(WorkDir, tlast.path)) => (ttouched = {} /\ ~tok)

\* C27: a containment violation in one entry of a JSON batch block stops only
\* that entry: every other valid entry of the batch, before and after it, is
\* written as a batch entry and recorded, and the failing entry is neither
\* written nor recorded.
C27_BatchEntryFailsAlone ==
    Ran => \A i \in 1..Len(xin) :
              IsBatchBlock(xin[i]) =>
                 \A k \in 1..Len(xin[i].body.json.items) :
                    LET e == xin[i].body.json.items[k] IN
                    EntryValid(e) =>
                       IF validatePath(WorkDir, EntryName(e)).ok
                       THEN \E w \in WritesOf(xr1, i) :
                               /\ xr1.writes[w].via = "batch"
                               /\ xr1.writes[w].name = EntryName(e)
                       ELSE \A w \in 1..Len(xr1.writes) : xr1.writes[w].name # EntryName(e)

\* The call has the arguments the dispatcher's branch for its tool asks for.
HasRequiredArgs(call) ==
    CASE call.tool = "read_file" -> Truthy(call.args.file_name)
      [] call.tool = "replace_text_in_file" ->
            Truthy(call.args.file_name) /\ Truthy(call.args.old_string)
            /\ Truthy(call.args.new_string)
      [] call.tool = "delete_files_by_pattern" -> Truthy(call.args.pattern)
      [] call.tool = "fetch_web_content" -> Truthy(call.args.url)
      [] OTHER -> TRUE

\* C28: every tool name listed under 'Allowed Tools' is handled by the
\* dispatcher: a well-formed call of a listed tool with its required
\* arguments, whose handler produces output, never yields
\* 'Error: Tool not found/allowed.'.
C28_AllowedToolsHandled ==
    [][ToolCallTurn =>
          LET call == ParseToolCall(content') IN
          (call.tool \in AllowedTools(cfg) /\ HasRequiredArgs(call)) =>
              Dispatch(call, disk, filesModified, cfg, "ok").toolResult # ErrNotFound]_vars

\* C29: 'Error: Tool not found/allowed.' is appended only when no handler ran
\* for the call: a call whose tool has a branch in an enabled category and
\* carries the arguments the branch asks for is never reported as not found,
\* whatever its handler produced.
C29_NotFoundOnlyWithoutHandler ==
    [][ToolCallTurn =>
          LET call == ParseToolCall(content') IN
          msgTail'[2].result = ErrNotFound => (NotAllowed(call) \/ ~HasRequiredArgs(call))]_vars

\* The tool output of the turn came from the Python runner: the script ran.
PythonRan ==
    /\ ToolCallTurn
    /\ ParseToolCall(content').tool = "run_python"
    /\ msgTail'[2].result \in {"stdout", ErrThrown}

\* C30: Python code is executed on the host only when Python execution is
\* enabled in the plugin settings (allowPythonExecution or allowAllCode), also
\* for a run_python tool call dispatched inside a secondary-agent session.
C30_PythonOnlyWhenEnabled ==
    [][PythonRan => cfg.allowPython]_vars

====
